---- MODULE Spec2Model ----
(***************************************************************************)
(* State-machine model of the document classifier backend                  *)
(* (src/unnamed/part_000): the in-memory array `classifications`, the      *)
(* `undoHistory` map and the Express handlers that read and write them.    *)
(*                                                                         *)
(* Modelling conventions                                                   *)
(*  - Time is the millisecond clock behind `new Date()`; an ISO string     *)
(*    produced by toISOString() is represented by its millisecond value.   *)
(*  - uuidv4() is a source of fresh identifiers: the n-th call returns n.  *)
(*  - JavaScript arrays are heap objects.  `heap` maps a reference to the  *)
(*    contents of a label array, a record's `classifications` field holds  *)
(*    a reference, so that a shallow copy {...doc} shares the array.       *)
(*  - A request body is the value produced by bodyParser.json(); every     *)
(*    array inside it is a freshly allocated heap object.                  *)
(***************************************************************************)
EXTENDS Integers, Sequences, FiniteSets, TLC

VARIABLES
    started,          \* the app.listen callback has run loadInitialData
    classifications,  \* let classifications = []  (sequence of documents)
    undoHistory,      \* let undoHistory = new Map()  (id -> undo entry)
    heap,             \* contents of every label array allocated so far
    nextUuid,         \* number of uuidv4() calls made so far, plus one
    now,              \* the clock read by new Date()
    ticks,            \* how many times the clock has advanced (bounded)
    ops,              \* how many requests were served (bounded)
    res,              \* the last response sent
    shadow            \* history, per key of undoHistory: `doc`, the deep
                      \* value of the document right before the PATCH that
                      \* made the entry, and `overwrote`, whether that PATCH
                      \* found an earlier entry under the key

vars == <<started, classifications, undoHistory, heap, nextUuid, now, ticks,
          ops, res, shadow>>

----------------------------------------------------------------------------
(* Bounds of the model *)

\* documents the store may hold
MaxDocs == 2
\* advances of the clock
MaxTicks == 2
\* requests served
MaxOps == 3

(* const undoTimeLimit = 30 * 1000; // 30 seconds *)
undoTimeLimit == 30 * 1000

(* The n-th advance of the clock: by the whole undo window when n is odd, *)
(* by one millisecond when n is even, so that requests can be exactly     *)
(* undoTimeLimit apart, one millisecond more, or one millisecond apart.   *)
ClockStep(n) == IF n % 2 = 1 THEN undoTimeLimit ELSE 1

----------------------------------------------------------------------------
(* Values that requests carry *)

(* Label arrays a PATCH may carry.  Scores are written in tenths: 9      *)
(* stands for 0.9.                                                         *)
LabelArrays == { <<[label |-> "memo", score |-> 7]>> }

(* Identifiers a client can send that uuidv4() never returns. *)
ForeignIds == {100}

(* Identifiers returned by uuidv4() so far. *)
AssignedIds == 1..(nextUuid - 1)

(* The :id values a client may put in a URL: the identifiers the server   *)
(* has handed out or holds, and the foreign ones.                          *)
RequestIds ==
    { classifications[i].id : i \in 1..Len(classifications) }
    \cup DOMAIN undoHistory \cup ForeignIds

(* The entries of a seed file or of a POST body. *)
Entries ==
    { [document_name |-> "b.pdf",
       classifications |-> <<[label |-> "invoice", score |-> 5]>>],
      [document_name |-> "a.pdf",
       classifications |-> <<[label |-> "receipt", score |-> 1],
                             [label |-> "invoice", score |-> 9]>>] }

EmptyObject == [f \in {} |-> 0]

----------------------------------------------------------------------------
(* Heap helpers *)

(* The value JSON.stringify sees for a document: the array is followed. *)
DeepIn(h, doc) == [doc EXCEPT !.classifications = h[doc.classifications]]

Deep(doc) == DeepIn(heap, doc)

DeepAll(h, docs) == [i \in 1..Len(docs) |-> DeepIn(h, docs[i])]

(* classifications.findIndex(doc => doc.id === id); 0 stands for -1. *)
findIndex(docs, id) ==
    IF \E i \in 1..Len(docs) : docs[i].id = id
    THEN CHOOSE i \in 1..Len(docs) :
            /\ docs[i].id = id
            /\ \A j \in 1..(i - 1) : docs[j].id # id
    ELSE 0

----------------------------------------------------------------------------
(* Creation of documents: the map callback shared by loadInitialData and  *)
(* POST /classifications.  Entry k of the input gets the k-th uuid drawn   *)
(* by this call and the k-th array allocated by the JSON parse.            *)

NewDoc(entry, uuid, ref, t) ==
    [ id |-> uuid,
      document_name |-> entry.document_name,
      classifications |-> ref,
      manually_edited |-> FALSE,
      created_at |-> t,
      updated_at |-> t ]

MapEntries(entries, firstUuid, firstRef, t) ==
    [k \in 1..Len(entries) |->
        NewDoc(entries[k], firstUuid + k - 1, firstRef + k - 1, t)]

(* The arrays a parsed body adds to the heap, one per entry. *)
ParsedArrays(entries) == [k \in 1..Len(entries) |-> entries[k].classifications]

Init ==
    /\ started = FALSE
    /\ classifications = <<>>
    /\ undoHistory = EmptyObject
    /\ heap = <<>>
    /\ nextUuid = 1
    /\ now = 0
    /\ ticks = 0
    /\ ops = 0
    /\ res = [op |-> "none", status |-> 0]
    /\ shadow = EmptyObject

----------------------------------------------------------------------------
(* Map helpers: undoHistory.set(k, v), undoHistory.delete(k) *)

MapSet(m, k, v) == [x \in DOMAIN m \cup {k} |-> IF x = k THEN v ELSE m[x]]

(* Faulty variant of MapDelete: undoHistory.clear() *)
MapCleared(m, k) == [x \in {} |-> m[x]]

MapDelete(m, k) == [x \in DOMAIN m \ {k} |-> m[x]]

(* Sequences over S of length at most n. *)
SeqsUpTo(S, n) == UNION { [1..k -> S] : k \in 0..n }

----------------------------------------------------------------------------
(* loadInitialData, run once by the app.listen callback.  The seed file   *)
(* either parses to an array of entries or the try block throws.          *)

LoadInitialDataOk ==
    /\ ~started
    /\ \E data \in SeqsUpTo(Entries, MaxDocs) :
        /\ classifications' = MapEntries(data, nextUuid, Len(heap) + 1, now)
        /\ heap' = heap \o ParsedArrays(data)
        /\ nextUuid' = nextUuid + Len(data)
    /\ started' = TRUE
    /\ UNCHANGED <<undoHistory, now, ticks, ops, res, shadow>>

LoadInitialDataError ==
    /\ ~started
    /\ classifications' = <<>>
    /\ started' = TRUE
    /\ UNCHANGED <<undoHistory, heap, nextUuid, now, ticks, ops, res, shadow>>

loadInitialData == LoadInitialDataOk \/ LoadInitialDataError

----------------------------------------------------------------------------
(* The clock advances between requests.  Only requests read it, so its   *)
(* advances are followed from the first request to the last.              *)

Tick ==
    /\ started
    /\ ops < MaxOps
    /\ ticks < MaxTicks
    /\ now' = now + ClockStep(ticks + 1)
    /\ ticks' = ticks + 1
    /\ UNCHANGED <<started, classifications, undoHistory, heap, nextUuid,
                   ops, res, shadow>>

----------------------------------------------------------------------------
(* POST /classifications *)

(* A request body: an array of entries ("array"), an array whose first    *)
(* null element follows `entries` ("null_element"), or a JSON value that  *)
(* is not an array ("not_array").                                         *)
PostBodies ==
    [kind : {"array"}, entries : SeqsUpTo(Entries, MaxDocs)]
    \cup [kind : {"null_element"}, entries : SeqsUpTo(Entries, 1)]
    \cup {[kind |-> "not_array", entries |-> <<>>]}

(* if (!Array.isArray(newClassifications)) return res.status(400) *)
PostNotArray(body) ==
    /\ body.kind = "not_array"
    /\ res' = [op |-> "post", body |-> body, status |-> 400,
               error |-> "Expected array of classifications"]
    /\ UNCHANGED <<classifications, undoHistory, heap, nextUuid, shadow>>

(* map() reaches the null element: uuidv4() has been called for it and    *)
(* for every entry before it, then doc.document_name throws; the catch    *)
(* block answers 500 and push() is never reached.                         *)
PostThrows(body) ==
    /\ body.kind = "null_element"
    /\ nextUuid' = nextUuid + Len(body.entries) + 1
    /\ res' = [op |-> "post", body |-> body, status |-> 500,
               error |-> "Internal server error"]
    /\ UNCHANGED <<classifications, undoHistory, heap, shadow>>

(* Faulty variant of Pushed: unshift, the new documents go in front. *)
PushedInFront(docs, processedData) == processedData \o docs

(* classifications.push(...processedData) *)
Pushed(docs, processedData) == docs \o processedData

PostOk(body) ==
    /\ body.kind = "array"
    /\ Len(classifications) + Len(body.entries) <= MaxDocs
    /\ LET processedData ==
               MapEntries(body.entries, nextUuid, Len(heap) + 1, now)
           newHeap == heap \o ParsedArrays(body.entries)
       IN  /\ classifications' = Pushed(classifications, processedData)
           /\ heap' = newHeap
           /\ nextUuid' = nextUuid + Len(body.entries)
           /\ res' = [op |-> "post", body |-> body, status |-> 201,
                      data |-> DeepAll(newHeap, processedData)]
    /\ UNCHANGED <<undoHistory, shadow>>

PostClassifications ==
    /\ started
    /\ ops < MaxOps
    /\ ops' = ops + 1
    /\ \E body \in PostBodies :
          PostNotArray(body) \/ PostThrows(body) \/ PostOk(body)
    /\ UNCHANGED <<started, now, ticks>>

----------------------------------------------------------------------------
(* PATCH /classifications/:id *)

(* The JSON objects a client may send as the body of a PATCH.  A          *)
(* `classifications` member carries the contents of the array the parse   *)
(* allocates.                                                              *)
PatchBodies ==
    [document_name : {"c.pdf"}]
    \cup [classifications : LabelArrays]
    \cup [id : RequestIds]
    \cup [id : ForeignIds, document_name : {"c.pdf"}]
    \cup {[manually_edited |-> FALSE, updated_at |-> 7, created_at |-> 7]}

(* The parsed body as the handler holds it: the array member, if any, is  *)
(* the reference `ref` of the array the parse allocated.                   *)
ParsedUpdates(updates, ref) ==
    IF "classifications" \in DOMAIN updates
    THEN [updates EXCEPT !.classifications = ref]
    ELSE updates

(* The heap once the body has been parsed. *)
HeapAfterParse(h, updates) ==
    IF "classifications" \in DOMAIN updates
    THEN Append(h, updates.classifications)
    ELSE h

(* An object without member f. *)
Without(obj, f) == [g \in DOMAIN obj \ {f} |-> obj[g]]

(* { ...a, ...b } *)
Spread(a, b) ==
    [f \in DOMAIN a \cup DOMAIN b |-> IF f \in DOMAIN b THEN b[f] ELSE a[f]]

(* const previousState = { ...classifications[docIndex] };  a shallow     *)
(* copy: a new object with the same field values, array reference kept.   *)
PreviousState(doc) == Spread(EmptyObject, doc)

(* { previousState, timestamp: new Date(), canUndo: true } *)
UndoEntry(doc, t) ==
    [previousState |-> PreviousState(doc), timestamp |-> t, canUndo |-> TRUE]

(* Faulty variant of UpdatedDoc: updated_at is not stamped.                *)
UpdatedDocUnstamped(doc, updates, t) ==
    Spread(Spread(doc, updates), [manually_edited |-> TRUE])

(* Faulty variant of UpdatedDoc: the body is spread last and wins over    *)
(* the forced members.                                                     *)
UpdatedDocBodyLast(doc, updates, t) ==
    Spread(Spread(doc, [manually_edited |-> TRUE, updated_at |-> t]), updates)

(* { ...classifications[docIndex], ...updates, manually_edited: true,     *)
(*   updated_at: new Date().toISOString() }                               *)
UpdatedDoc(doc, updates, t) ==
    Spread(Spread(doc, updates), [manually_edited |-> TRUE, updated_at |-> t])

(* Faulty variant of PatchEffect: the new labels are written into the     *)
(* array the document already has (splice), which the snapshot shares.     *)
PatchEffectInPlace(h, doc, updates, t) ==
    IF "classifications" \in DOMAIN updates
    THEN [heap |-> [h EXCEPT ![doc.classifications] = updates.classifications],
          doc  |-> UpdatedDoc(doc, Without(updates, "classifications"), t)]
    ELSE [heap |-> h, doc |-> UpdatedDoc(doc, updates, t)]

(* What the update writes: the heap and the document stored at docIndex.  *)
(* The document is a new object; no existing array is written to.          *)
PatchEffect(h, doc, updates, t) ==
    [heap |-> HeapAfterParse(h, updates),
     doc  |-> UpdatedDoc(doc, ParsedUpdates(updates, Len(h) + 1), t)]

(* Faulty variant of PatchNotFound: the ledger entry is written before   *)
(* the lookup result is tested; { ...undefined } is the empty object.      *)
PatchNotFoundRecording(id, updates) ==
    /\ findIndex(classifications, id) = 0
    /\ undoHistory' = MapSet(undoHistory, id,
                             [previousState |-> EmptyObject, timestamp |-> now,
                              canUndo |-> TRUE])
    /\ shadow' = MapSet(shadow, id,
                        [doc |-> EmptyObject,
                         overwrote |-> id \in DOMAIN undoHistory])
    /\ res' = [op |-> "patch", id |-> id, updates |-> updates,
               status |-> 404, error |-> "Document not found"]
    /\ UNCHANGED <<classifications, heap>>

(* if (docIndex === -1) return res.status(404) *)
PatchNotFound(id, updates) ==
    /\ findIndex(classifications, id) = 0
    /\ res' = [op |-> "patch", id |-> id, updates |-> updates,
               status |-> 404, error |-> "Document not found"]
    /\ UNCHANGED <<classifications, undoHistory, heap, shadow>>

PatchOk(id, updates) ==
    /\ findIndex(classifications, id) # 0
    /\ LET docIndex == findIndex(classifications, id)
           doc == classifications[docIndex]
           effect == PatchEffect(heap, doc, updates, now)
           newHeap == effect.heap
           updatedDoc == effect.doc
       IN  /\ undoHistory' = MapSet(undoHistory, id, UndoEntry(doc, now))
           /\ shadow' = MapSet(shadow, id,
                                [doc |-> Deep(doc),
                                 overwrote |-> id \in DOMAIN undoHistory])
           /\ classifications' = [classifications EXCEPT ![docIndex] = updatedDoc]
           /\ heap' = newHeap
           /\ res' = [op |-> "patch", id |-> id, updates |-> updates,
                      status |-> 200, index |-> docIndex,
                      data |-> DeepIn(newHeap, updatedDoc), canUndo |-> TRUE]

PatchClassification ==
    /\ started
    /\ ops < MaxOps
    /\ ops' = ops + 1
    /\ \E id \in RequestIds, updates \in PatchBodies :
          PatchNotFound(id, updates) \/ PatchOk(id, updates)
    /\ UNCHANGED <<started, nextUuid, now, ticks>>

----------------------------------------------------------------------------
(* POST /classifications/:id/undo *)

(* undoHistory.get(id): the entry, or undefined *)
HasUndo(id) == id \in DOMAIN undoHistory /\ undoHistory[id].canUndo

(* Faulty variant of UndoExpired: the limit itself counts as expired. *)
UndoExpiredAtLimit(undoData, t) == t - undoData.timestamp >= undoTimeLimit

(* Faulty variant of UndoExpired: the limit is taken for seconds. *)
UndoExpiredSeconds(undoData, t) ==
    t - undoData.timestamp > undoTimeLimit * 1000

(* timeDiff > undoTimeLimit, with timeDiff = new Date() - undoData.timestamp *)
UndoExpired(undoData, t) == t - undoData.timestamp > undoTimeLimit

(* Variant of RestoredDoc that stamps the restored document. *)
RestoredDocRefreshed(undoData, t) ==
    [undoData.previousState EXCEPT !.updated_at = t]

(* classifications[docIndex] = undoData.previousState *)
RestoredDoc(undoData, t) == undoData.previousState

(* if (!undoData || !undoData.canUndo) return res.status(400) *)
UndoNothing(id) ==
    /\ ~HasUndo(id)
    /\ res' = [op |-> "undo", id |-> id, status |-> 400,
               error |-> "No changes to undo"]
    /\ UNCHANGED <<classifications, undoHistory, shadow>>

(* if (timeDiff > undoTimeLimit) { undoHistory.delete(id); return 400 } *)
UndoTooLate(id) ==
    /\ HasUndo(id)
    /\ UndoExpired(undoHistory[id], now)
    /\ undoHistory' = MapDelete(undoHistory, id)
    /\ shadow' = MapDelete(shadow, id)
    /\ res' = [op |-> "undo", id |-> id, status |-> 400,
               error |-> "Undo time limit exceeded"]
    /\ UNCHANGED classifications

(* if (docIndex === -1) return res.status(404): the entry stays *)
UndoNotFound(id) ==
    /\ HasUndo(id)
    /\ ~UndoExpired(undoHistory[id], now)
    /\ findIndex(classifications, id) = 0
    /\ res' = [op |-> "undo", id |-> id, status |-> 404,
               error |-> "Document not found"]
    /\ UNCHANGED <<classifications, undoHistory, shadow>>

UndoOk(id) ==
    /\ HasUndo(id)
    /\ ~UndoExpired(undoHistory[id], now)
    /\ findIndex(classifications, id) # 0
    /\ LET docIndex == findIndex(classifications, id)
           restored == RestoredDoc(undoHistory[id], now)
       IN  /\ classifications' = [classifications EXCEPT ![docIndex] = restored]
           /\ res' = [op |-> "undo", id |-> id, status |-> 200,
                      index |-> docIndex, data |-> Deep(restored)]
    /\ undoHistory' = MapDelete(undoHistory, id)
    /\ shadow' = MapDelete(shadow, id)

PostUndo ==
    /\ started
    /\ ops < MaxOps
    /\ ops' = ops + 1
    /\ \E id \in RequestIds :
          UndoNothing(id) \/ UndoTooLate(id) \/ UndoNotFound(id) \/ UndoOk(id)
    /\ UNCHANGED <<started, heap, nextUuid, now, ticks>>

----------------------------------------------------------------------------
(* GET /classifications *)

(* Characters of the strings that labels and the `type` parameter use. *)
Chars(str) ==
    CASE str = "invoice" -> <<"i", "n", "v", "o", "i", "c", "e">>
      [] str = "receipt" -> <<"r", "e", "c", "e", "i", "p", "t">>
      [] str = "memo"    -> <<"m", "e", "m", "o">>
      [] str = "INV"     -> <<"I", "N", "V">>
      [] str = "e"       -> <<"e">>

(* String.prototype.toLowerCase, character by character *)
LowerChar(c) ==
    CASE c = "I" -> "i"
      [] c = "N" -> "n"
      [] c = "V" -> "v"
      [] OTHER   -> c

toLowerCase(cs) == [i \in 1..Len(cs) |-> LowerChar(cs[i])]

(* String.prototype.includes *)
includes(cs, sub) ==
    \E k \in 0..(Len(cs) - Len(sub)) :
        \A i \in 1..Len(sub) : cs[k + i] = sub[i]

(* doc.classifications.some(c => c.label.toLowerCase().includes(type.toLowerCase())) *)
MatchesType(h, doc, type) ==
    \E i \in 1..Len(h[doc.classifications]) :
        includes(toLowerCase(Chars(h[doc.classifications][i].label)),
                 toLowerCase(Chars(type)))

(* doc.classifications.some(c => c.score >= minConf) *)
MatchesMin(h, doc, minConf) ==
    \E i \in 1..Len(h[doc.classifications]) :
        h[doc.classifications][i].score >= minConf

(* doc.classifications.some(c => c.score <= maxConf) *)
MatchesMax(h, doc, maxConf) ==
    \E i \in 1..Len(h[doc.classifications]) :
        h[doc.classifications][i].score <= maxConf

(* Faulty variant of Filtered: one label has to meet both bounds.         *)
FilteredJointly(h, docs, q) ==
    LET byType == IF "type" \in DOMAIN q
                  THEN SelectSeq(docs, LAMBDA d : MatchesType(h, d, q.type))
                  ELSE docs
    IN  SelectSeq(byType, LAMBDA d :
            \E i \in 1..Len(h[d.classifications]) :
                /\ "min_confidence" \in DOMAIN q =>
                       h[d.classifications][i].score >= q.min_confidence
                /\ "max_confidence" \in DOMAIN q =>
                       h[d.classifications][i].score <= q.max_confidence)

(* The three filter stages, each applied when its parameter is given;     *)
(* SelectSeq is Array.prototype.filter.                                    *)
Filtered(h, docs, q) ==
    LET byType == IF "type" \in DOMAIN q
                  THEN SelectSeq(docs, LAMBDA d : MatchesType(h, d, q.type))
                  ELSE docs
        byMin  == IF "min_confidence" \in DOMAIN q
                  THEN SelectSeq(byType, LAMBDA d : MatchesMin(h, d, q.min_confidence))
                  ELSE byType
    IN  IF "max_confidence" \in DOMAIN q
        THEN SelectSeq(byMin, LAMBDA d : MatchesMax(h, d, q.max_confidence))
        ELSE byMin

(* a.document_name.localeCompare(b.document_name): the sign *)
NameRank(name) ==
    CASE name = "a.pdf" -> 1
      [] name = "b.pdf" -> 2
      [] name = "c.pdf" -> 3

(* Math.max(...a.classifications.map(c => c.score)) of a non-empty array *)
MaxScore(h, doc) ==
    CHOOSE m \in { h[doc.classifications][i].score :
                     i \in 1..Len(h[doc.classifications]) } :
        \A i \in 1..Len(h[doc.classifications]) :
            h[doc.classifications][i].score <= m

(* The comparator handed to results.sort *)
Compare(h, q, a, b) ==
    LET order == IF "order" \in DOMAIN q /\ q.order = "desc" THEN -1 ELSE 1
    IN  CASE q.sort = "name" ->
                order * (NameRank(a.document_name) - NameRank(b.document_name))
          [] q.sort = "confidence" -> order * (MaxScore(h, a) - MaxScore(h, b))
          [] q.sort = "updated" -> order * (a.updated_at - b.updated_at)
          [] OTHER -> 0

(* Array.prototype.sort is stable: an element goes after every element    *)
(* that does not compare greater than it.                                  *)
RECURSIVE InsertSorted(_, _, _, _)
InsertSorted(h, q, sorted, x) ==
    IF sorted = <<>> THEN <<x>>
    ELSE IF Compare(h, q, Head(sorted), x) > 0 THEN <<x>> \o sorted
         ELSE <<Head(sorted)>> \o InsertSorted(h, q, Tail(sorted), x)

RECURSIVE SortWith(_, _, _)
SortWith(h, q, docs) ==
    IF docs = <<>> THEN <<>>
    ELSE InsertSorted(h, q, SortWith(h, q, SubSeq(docs, 1, Len(docs) - 1)),
                      docs[Len(docs)])

(* if (req.query.sort) results.sort(...) *)
Sorted(h, docs, q) ==
    IF "sort" \in DOMAIN q THEN SortWith(h, q, docs) ELSE docs

(* parseInt(req.query.page) || 1 and parseInt(req.query.limit) || 100 *)
Page(q) == IF "page" \in DOMAIN q /\ q.page # 0 THEN q.page ELSE 1

Limit(q) == IF "limit" \in DOMAIN q /\ q.limit # 0 THEN q.limit ELSE 100

(* Array.prototype.slice(start, end): a negative index counts from the end *)
RelativeIndex(i, len) ==
    IF i < 0 THEN (IF len + i < 0 THEN 0 ELSE len + i)
    ELSE (IF i > len THEN len ELSE i)

slice(arr, start, end) ==
    LET k == RelativeIndex(start, Len(arr))
        final == RelativeIndex(end, Len(arr))
    IN  IF k < final THEN SubSeq(arr, k + 1, final) ELSE <<>>

(* Math.ceil(total / limit), limit not 0 *)
CeilDiv(total, limit) ==
    IF limit > 0 THEN (total + limit - 1) \div limit
    ELSE -(total \div (-limit))

(* Faulty variant of QueryRun: let results = classifications.  filter()   *)
(* returns a new array, so the live array is the one sorted only when no   *)
(* filter is given.                                                        *)
QueryRunAliased(h, docs, q) ==
    [store |-> IF DOMAIN q \cap {"type", "min_confidence", "max_confidence"} = {}
               THEN Sorted(h, docs, q) ELSE docs,
     results |-> Sorted(h, Filtered(h, docs, q), q)]

(* let results = [...classifications]: the handler filters and sorts a    *)
(* copy.  `store` is the live array once the handler has run, `results`   *)
(* the array it paginates.                                                 *)
QueryRun(h, docs, q) ==
    [store |-> docs, results |-> Sorted(h, Filtered(h, docs, q), q)]

Paginated(results, q) ==
    slice(results, (Page(q) - 1) * Limit(q), (Page(q) - 1) * Limit(q) + Limit(q))

Pagination(results, q) ==
    [page |-> Page(q), limit |-> Limit(q), total |-> Len(results),
     pages |-> CeilDiv(Len(results), Limit(q))]

(* The query strings explored. *)
Filters ==
    { EmptyObject, [type |-> "INV"], [type |-> "e"],
      [min_confidence |-> 8, max_confidence |-> 2], [min_confidence |-> 6] }

Sorts ==
    { EmptyObject, [sort |-> "name"], [sort |-> "name", order |-> "desc"],
      [sort |-> "confidence", order |-> "desc"], [sort |-> "updated"],
      [sort |-> "relevance"] }

Pagings ==
    { EmptyObject, [page |-> 2, limit |-> 1], [page |-> 3, limit |-> 1],
      [page |-> -1, limit |-> 1], [page |-> 0, limit |-> 0] }

Queries ==
    Filters \cup Sorts \cup Pagings
    \cup { Spread(Spread(f, [sort |-> "name", order |-> "desc"]), p) :
             f \in {[type |-> "e"], [min_confidence |-> 6]},
             p \in {[page |-> 1, limit |-> 1], [page |-> 2, limit |-> 1]} }

GetClassifications ==
    /\ started
    /\ ops < MaxOps
    /\ ops' = ops + 1
    /\ \E q \in Queries :
        LET run == QueryRun(heap, classifications, q)
        IN  /\ classifications' = run.store
            /\ res' = [op |-> "list", query |-> q, status |-> 200,
                       data |-> DeepAll(heap, Paginated(run.results, q)),
                       pagination |-> Pagination(run.results, q)]
    /\ UNCHANGED <<started, undoHistory, heap, nextUuid, now, ticks, shadow>>

----------------------------------------------------------------------------
(* GET /classifications/:id *)

(* classifications.find(doc => doc.id === id) *)
GetFound(id) ==
    /\ findIndex(classifications, id) # 0
    /\ res' = [op |-> "get", id |-> id, status |-> 200,
               data |-> Deep(classifications[findIndex(classifications, id)])]

GetNotFound(id) ==
    /\ findIndex(classifications, id) = 0
    /\ res' = [op |-> "get", id |-> id, status |-> 404,
               error |-> "Document not found"]

GetClassification ==
    /\ started
    /\ ops < MaxOps
    /\ ops' = ops + 1
    /\ \E id \in RequestIds : GetFound(id) \/ GetNotFound(id)
    /\ UNCHANGED <<started, classifications, undoHistory, heap, nextUuid,
                   now, ticks, shadow>>

----------------------------------------------------------------------------
(* GET /health *)

GetHealth ==
    /\ started
    /\ ops < MaxOps
    /\ ops' = ops + 1
    /\ res' = [op |-> "health", status |-> 200,
               documents_count |-> Len(classifications),
               undo_history_count |-> Cardinality(DOMAIN undoHistory)]
    /\ UNCHANGED <<started, classifications, undoHistory, heap, nextUuid,
                   now, ticks, shadow>>

----------------------------------------------------------------------------

Next ==
    \/ loadInitialData
    \/ Tick
    \/ GetClassifications
    \/ PostClassifications
    \/ PatchClassification
    \/ PostUndo
    \/ GetClassification
    \/ GetHealth

Spec == Init /\ [][Next]_vars

----------------------------------------------------------------------------
(* Vocabulary of the properties *)

(* This step serves a request. *)
Served == ops' = ops + 1

(* This step serves POST /classifications/:id/undo for `id`. *)
UndoStep(id) == Served /\ res'.op = "undo" /\ res'.id = id

(* This step serves PATCH /classifications/:id for `id`. *)
PatchStep(id) == Served /\ res'.op = "patch" /\ res'.id = id

(* The last request was a successful PATCH of `id`. *)
JustPatched(id) == res.op = "patch" /\ res.status = 200 /\ res.id = id

(* The elapsed time since the entry of `id` was recorded is within the TTL. *)
WithinTtl(id) == now - undoHistory[id].timestamp <= undoTimeLimit

NoUndoAvailableError(r) == r.status = 400 /\ r.error = "No changes to undo"

UndoExpiredError(r) == r.status = 400 /\ r.error = "Undo time limit exceeded"

----------------------------------------------------------------------------
(* C1.  Undo round-trip: when a PATCH of id succeeded and the next request *)
(* is undo(id) within the TTL, the patched record has the document_name    *)
(* and the classifications it had right before the PATCH; and an undo(id)  *)
(* that directly follows an undo(id) fails with NoUndoAvailableError and   *)
(* leaves the records unchanged.                                           *)
C1_UndoRoundTrip ==
    [][ \A id \in RequestIds :
          /\ (JustPatched(id) /\ UndoStep(id) /\ WithinTtl(id)) =>
                LET after == DeepIn(heap', classifications'[res.index])
                IN  /\ after.document_name = shadow[id].doc.document_name
                    /\ after.classifications = shadow[id].doc.classifications
          /\ (res.op = "undo" /\ res.id = id /\ UndoStep(id)) =>
                /\ NoUndoAvailableError(res')
                /\ classifications' = classifications
      ]_vars

----------------------------------------------------------------------------
(* C2 as stated.  manually_edited is false at creation, true after a       *)
(* successful PATCH, and once true it is true in every later state of the  *)
(* record, also after an undo.                                             *)
C2_ManuallyEditedMonotone ==
    [][ /\ \A i \in 1..Len(classifications') :
              i > Len(classifications) => ~classifications'[i].manually_edited
        /\ \A id \in RequestIds :
              (PatchStep(id) /\ res'.status = 200) =>
                  classifications'[res'.index].manually_edited
        /\ \A i \in 1..Len(classifications) :
              classifications[i].manually_edited =>
                  classifications'[i].manually_edited
      ]_vars

(* C2 as amended.  manually_edited is false at creation and true right     *)
(* after every successful PATCH; a successful undo puts back the value the *)
(* snapshot holds, so the flag falls back to false when the undone PATCH   *)
(* was the first one; nothing but such an undo resets it.                  *)
C2_ManuallyEditedUntilUndone ==
    [][ /\ \A i \in 1..Len(classifications') :
              i > Len(classifications) => ~classifications'[i].manually_edited
        /\ \A id \in RequestIds :
              /\ (PatchStep(id) /\ res'.status = 200) =>
                     classifications'[res'.index].manually_edited
              /\ (UndoStep(id) /\ res'.status = 200) =>
                     classifications'[res'.index].manually_edited
                         = shadow[id].doc.manually_edited
        /\ \A i \in 1..Len(classifications) :
              (classifications[i].manually_edited
                   /\ ~classifications'[i].manually_edited) =>
                  /\ Served /\ res'.op = "undo" /\ res'.status = 200
                  /\ res'.index = i
                  /\ ~shadow[res'.id].doc.manually_edited
      ]_vars

(* An undo has just reset manually_edited of a patched record to false. *)
C2_Witness ==
    /\ res.op = "undo" /\ res.status = 200
    /\ ~classifications[res.index].manually_edited

----------------------------------------------------------------------------
(* C3.  An undo(id) that finds an entry older than the TTL fails with      *)
(* UndoExpiredError, leaves the records unchanged and deletes the entry;   *)
(* an undo(id) that finds no entry fails with NoUndoAvailableError and     *)
(* changes nothing; and only a successful PATCH of id makes an entry for   *)
(* id, so after the expiry undo(id) keeps failing that way until one.      *)
C3_UndoExpiry ==
    [][ /\ \A id \in RequestIds :
              UndoStep(id) =>
                /\ (id \in DOMAIN undoHistory
                      /\ now - undoHistory[id].timestamp > undoTimeLimit) =>
                      /\ UndoExpiredError(res')
                      /\ classifications' = classifications
                      /\ heap' = heap
                      /\ id \notin DOMAIN undoHistory'
                /\ id \notin DOMAIN undoHistory =>
                      /\ NoUndoAvailableError(res')
                      /\ UNCHANGED <<classifications, heap, undoHistory>>
        /\ \A id \in DOMAIN undoHistory' \ DOMAIN undoHistory :
              PatchStep(id) /\ res'.status = 200
      ]_vars

(* An undo has just been refused as expired. *)
C3_Witness ==
    /\ res.op = "undo" /\ UndoExpiredError(res)
    /\ res.id \notin DOMAIN undoHistory
    /\ findIndex(classifications, res.id) # 0

----------------------------------------------------------------------------
(* C4.  A PATCH of id puts the ledger entry of id in place of any earlier  *)
(* one; so when a PATCH of id that overwrote an earlier entry is followed  *)
(* by undo(id) within the TTL, the undo succeeds, the record is again what *)
(* it was between the two updates and no entry for id is left.             *)
C4_NoUndoChaining ==
    [][ \A id \in RequestIds :
          /\ (PatchStep(id) /\ res'.status = 200) =>
                /\ undoHistory'[id].timestamp = now
                /\ Deep(undoHistory'[id].previousState)
                       = Deep(classifications[res'.index])
          /\ (JustPatched(id) /\ shadow[id].overwrote
                  /\ UndoStep(id) /\ WithinTtl(id)) =>
                /\ res'.status = 200
                /\ DeepIn(heap', classifications'[res.index]) = shadow[id].doc
                /\ id \notin DOMAIN undoHistory'
      ]_vars

----------------------------------------------------------------------------
(* C5.  No step changes the id of a stored record. *)
C5_IdImmutable ==
    [][ \A i \in 1..Len(classifications) :
            classifications'[i].id = classifications[i].id ]_vars

----------------------------------------------------------------------------
(* C6.  In every reachable state no two records of the store have the     *)
(* same id.                                                                *)
C6_IdsUnique ==
    \A i, j \in 1..Len(classifications) :
        i # j => classifications[i].id # classifications[j].id

----------------------------------------------------------------------------
(* C7 as stated.  After a successful undo the record is the snapshot with  *)
(* updated_at set to the time of the undo.                                 *)
C7_UndoRefreshesUpdatedAt ==
    [][ \A id \in RequestIds :
          (UndoStep(id) /\ res'.status = 200) =>
              classifications'[res'.index]
                  = [undoHistory[id].previousState EXCEPT !.updated_at = now]
      ]_vars

(* C7 as amended.  After a successful undo the record is the snapshot,     *)
(* field for field: updated_at too is the snapshot's, the value the record *)
(* had before the undone update, whatever the time of the undo.            *)
C7_UndoRestoresVerbatim ==
    [][ \A id \in RequestIds :
          (UndoStep(id) /\ res'.status = 200) =>
              /\ classifications'[res'.index] = undoHistory[id].previousState
              /\ DeepIn(heap', classifications'[res'.index]) = shadow[id].doc
              /\ res'.data.updated_at = shadow[id].doc.updated_at
      ]_vars

(* An undo succeeded at a time that is not the restored updated_at. *)
C7_Witness ==
    /\ res.op = "undo" /\ res.status = 200
    /\ classifications[res.index].updated_at # now

----------------------------------------------------------------------------
(* C8.  A POST whose body is an array of n entries answers 201, keeps the  *)
(* records there were, in place, appends n records made from the entries   *)
(* in order, each with manually_edited false, returns exactly these and    *)
(* leaves the ledger alone; a POST whose body is not an array answers 400  *)
(* and changes neither store nor ledger.                                   *)
C8_IngestAppends ==
    [][ (Served /\ res'.op = "post") =>
          LET body == res'.body
              n == Len(body.entries)
              old == Len(classifications)
          IN  /\ body.kind = "array" =>
                    /\ res'.status = 201
                    /\ Len(classifications') = old + n
                    /\ SubSeq(classifications', 1, old) = classifications
                    /\ DeepAll(heap', SubSeq(classifications', 1, old))
                           = DeepAll(heap, classifications)
                    /\ Len(res'.data) = n
                    /\ \A k \in 1..n :
                          /\ res'.data[k]
                                 = DeepIn(heap', classifications'[old + k])
                          /\ ~classifications'[old + k].manually_edited
                          /\ res'.data[k].document_name
                                 = body.entries[k].document_name
                          /\ res'.data[k].classifications
                                 = body.entries[k].classifications
                    /\ undoHistory' = undoHistory
              /\ body.kind = "not_array" =>
                    /\ res'.status = 400
                    /\ UNCHANGED <<classifications, heap, undoHistory>>
      ]_vars

(* A POST has just appended to a store that was not empty. *)
C8_Witness ==
    /\ res.op = "post" /\ res.status = 201
    /\ Len(res.data) >= 1
    /\ Len(classifications) > Len(res.data)

----------------------------------------------------------------------------
(* C9.  As long as undoHistory holds an entry, the snapshot in it, arrays  *)
(* followed, is the document as it was right before the PATCH that made    *)
(* the entry.                                                              *)
C9_SnapshotIndependent ==
    \A k \in DOMAIN undoHistory :
        Deep(undoHistory[k].previousState) = shadow[k].doc

(* An entry is pending whose record has other labels by now, and a later   *)
(* request has been served since.                                          *)
C9_Witness ==
    \E k \in DOMAIN undoHistory :
        /\ findIndex(classifications, k) # 0
        /\ Deep(classifications[findIndex(classifications, k)]).classifications
               # shadow[k].doc.classifications
        /\ ~JustPatched(k)

----------------------------------------------------------------------------
(* C10.  A GET /classifications changes neither the records, their order,  *)
(* their arrays nor the ledger, and when it repeats the query of the       *)
(* request before it, it returns the same page and the same pagination.    *)
C10_ListIsReadOnly ==
    [][ (Served /\ res'.op = "list") =>
          /\ UNCHANGED <<classifications, heap, undoHistory>>
          /\ (res.op = "list" /\ res.query = res'.query) =>
                /\ res'.data = res.data
                /\ res'.pagination = res.pagination
      ]_vars

(* A sorted listing came back in another order than the store holds. *)
C10_Witness ==
    /\ res.op = "list" /\ "sort" \in DOMAIN res.query
    /\ Len(res.data) = 2
    /\ res.data # DeepAll(heap, classifications)

----------------------------------------------------------------------------
(* C11.  The page a GET /classifications returns holds the records at the  *)
(* 0-based positions (page-1)*limit up to, not including,                  *)
(* (page-1)*limit+limit of the records filtered first and sorted second;   *)
(* total is the number of records the filters keep and pages is            *)
(* ceil(total/limit).  250 records with limit 100 and page 3 give 50       *)
(* records and 3 pages.                                                    *)
C11_PageIsSliceOfFilterThenSort ==
    /\ res.op = "list" =>
          LET q       == res.query
              kept    == Filtered(heap, classifications, q)
              ordered == DeepAll(heap, Sorted(heap, kept, q))
              first   == (Page(q) - 1) * Limit(q)
              positions == { i \in 0..(Len(ordered) - 1) :
                               first <= i /\ i < first + Limit(q) }
          IN  /\ Len(res.data) = Cardinality(positions)
              /\ \A k \in 1..Len(res.data) :
                     /\ first + k - 1 \in positions
                     /\ res.data[k] = ordered[first + k]
              /\ res.pagination.total = Len(kept)
              /\ res.pagination.pages * Limit(q) >= Len(kept)
              /\ (res.pagination.pages - 1) * Limit(q) < Len(kept)
                     \/ (Len(kept) = 0 /\ res.pagination.pages = 0)
    /\ Len(slice([i \in 1..250 |-> i], (3 - 1) * 100, (3 - 1) * 100 + 100)) = 50
    /\ CeilDiv(250, 100) = 3

----------------------------------------------------------------------------
(* C12.  The two confidence bounds are tested independently: a listing     *)
(* keeps a record exactly when some label of it scores at least            *)
(* min_confidence and some label of it, the same or another, scores at     *)
(* most max_confidence, each bound counting only when it is given.         *)
C12_RangeBoundsIndependent ==
    res.op = "list" =>
        LET q == res.query
            scores(d) == { d.classifications[i].score :
                             i \in 1..Len(d.classifications) }
            aboveMin(d) == "min_confidence" \in DOMAIN q =>
                               \E x \in scores(d) : x >= q.min_confidence
            belowMax(d) == "max_confidence" \in DOMAIN q =>
                               \E y \in scores(d) : y <= q.max_confidence
            ofType(i) == "type" \in DOMAIN q =>
                             MatchesType(heap, classifications[i], q.type)
            kept == { i \in 1..Len(classifications) :
                        /\ ofType(i)
                        /\ aboveMin(Deep(classifications[i]))
                        /\ belowMax(Deep(classifications[i])) }
        IN  /\ res.pagination.total = Cardinality(kept)
            /\ \A k \in 1..Len(res.data) :
                   aboveMin(res.data[k]) /\ belowMax(res.data[k])
            /\ DOMAIN q \subseteq {"min_confidence", "max_confidence"} =>
                   res.data = SelectSeq(DeepAll(heap, classifications),
                                        LAMBDA d : aboveMin(d) /\ belowMax(d))

(* A listing with min_confidence above max_confidence kept a record, none  *)
(* of whose labels lies between the bounds, and dropped another.           *)
C12_Witness ==
    /\ res.op = "list"
    /\ {"min_confidence", "max_confidence"} \subseteq DOMAIN res.query
    /\ res.query.min_confidence > res.query.max_confidence
    /\ Len(res.data) >= 1
    /\ Len(res.data) < Len(classifications)

----------------------------------------------------------------------------
(* C13.  Every undo request for an id that has a ledger entry removes the  *)
(* entry, whether the undo succeeds, is rejected as expired, or finds no   *)
(* record with that id.                                                    *)
C13_UndoConsumesEntry ==
    [][ (Served /\ res'.op = "undo" /\ res'.id \in DOMAIN undoHistory) =>
            res'.id \notin DOMAIN undoHistory'
      ]_vars

----------------------------------------------------------------------------
(* C14.  A GET /classifications that asks for a page outside 1..pages,     *)
(* above pages or below 1, succeeds with an empty page, and total and      *)
(* pages still report the count of the records the filters keep.           *)
C14_OutOfRangePageIsEmpty ==
    ( /\ res.op = "list"
      /\ "page" \in DOMAIN res.query
      /\ res.query.page < 1 \/ res.query.page > res.pagination.pages )
    => /\ res.status = 200
       /\ res.data = <<>>
       /\ res.pagination.total
              = Len(Filtered(heap, classifications, res.query))
       /\ res.pagination.pages
              = CeilDiv(res.pagination.total, Limit(res.query))

----------------------------------------------------------------------------
(* C15.  A successful PATCH stores manually_edited = true and updated_at = *)
(* the time of the update whatever the body says about them; every other   *)
(* member the body supplies replaces the record's old value, and every     *)
(* member it does not supply keeps the old value.                          *)
C15_UpdateForcesProvenance ==
    [][ (Served /\ res'.op = "patch" /\ res'.status = 200) =>
          LET old     == Deep(classifications[res'.index])
              new     == DeepIn(heap', classifications'[res'.index])
              updates == res'.updates
          IN  /\ new.manually_edited = TRUE
              /\ new.updated_at = now
              /\ DOMAIN new = DOMAIN old \cup DOMAIN updates
              /\ \A f \in DOMAIN new \ {"manually_edited", "updated_at"} :
                     new[f] = IF f \in DOMAIN updates THEN updates[f] ELSE old[f]
              /\ res'.data = new
      ]_vars

(* A PATCH whose body says manually_edited: false and names another        *)
(* updated_at was served; the record is marked edited and carries the      *)
(* time of the update.                                                     *)
C15_Witness ==
    /\ res.op = "patch" /\ res.status = 200
    /\ {"manually_edited", "updated_at"} \subseteq DOMAIN res.updates
    /\ res.updates.manually_edited = FALSE
    /\ classifications[res.index].manually_edited = TRUE
    /\ classifications[res.index].updated_at = now
    /\ res.updates.updated_at # now

----------------------------------------------------------------------------
(* C16.  The created_at of a record is set when the record is created; no  *)
(* PATCH and no undo changes the created_at of any record.                 *)
C16_CreatedAtImmutable ==
    [][ (Served /\ res'.op \in {"patch", "undo"}) =>
          /\ Len(classifications') = Len(classifications)
          /\ \A i \in 1..Len(classifications) :
                 classifications'[i].created_at = classifications[i].created_at
      ]_vars

----------------------------------------------------------------------------
(* C17.  An undo that finds an entry is rejected as expired exactly when   *)
(* the time since the entry was recorded is strictly above undoTimeLimit;  *)
(* at undoTimeLimit exactly it is not, and restores the record it finds.   *)
(* The passing of time removes no entry: an entry leaves the ledger only   *)
(* in an undo request for its id and is replaced only by a successful      *)
(* PATCH of its id, and /health counts every entry, expired or not.        *)
C17_LazyExpiry ==
    [][ /\ (Served /\ res'.op = "undo" /\ res'.id \in DOMAIN undoHistory) =>
              LET age == now - undoHistory[res'.id].timestamp
              IN  /\ UndoExpiredError(res') <=> age > undoTimeLimit
                  /\ (age <= undoTimeLimit
                        /\ findIndex(classifications, res'.id) # 0) =>
                         res'.status = 200
        /\ \A k \in DOMAIN undoHistory :
              /\ k \notin DOMAIN undoHistory' =>
                     Served /\ res'.op = "undo" /\ res'.id = k
              /\ (k \in DOMAIN undoHistory' /\ undoHistory'[k] # undoHistory[k]) =>
                     Served /\ res'.op = "patch" /\ res'.id = k
                            /\ res'.status = 200
        /\ (Served /\ res'.op = "health") =>
              /\ res'.undo_history_count = Cardinality(DOMAIN undoHistory)
              /\ undoHistory' = undoHistory
      ]_vars

(* The last request of the run, after which the clock stands still, was a  *)
(* /health that counted an entry older than undoTimeLimit.                 *)
C17_Witness ==
    /\ ops = MaxOps
    /\ res.op = "health"
    /\ res.undo_history_count >= 1
    /\ \E k \in DOMAIN undoHistory :
           now - undoHistory[k].timestamp > undoTimeLimit

----------------------------------------------------------------------------
(* C18.  A PATCH of an id that no record has answers 404 'Document not     *)
(* found' and changes no record, no array and nothing in the ledger: no    *)
(* entry is made for the id.                                               *)
C18_FailedUpdateChangesNothing ==
    [][ (Served /\ res'.op = "patch"
           /\ findIndex(classifications, res'.id) = 0) =>
          /\ res'.status = 404
          /\ res'.error = "Document not found"
          /\ UNCHANGED <<classifications, heap, undoHistory>>
      ]_vars

(* A PATCH of an id that none of the stored records has was answered 404. *)
C18_Witness ==
    /\ res.op = "patch" /\ res.status = 404
    /\ Len(classifications) >= 1
    /\ findIndex(classifications, res.id) = 0
    /\ res.id \notin DOMAIN undoHistory

----------------------------------------------------------------------------
(* C19.  A PATCH or an undo of id that succeeds changes only the record    *)
(* found for id and the ledger entry of id: the number and the order of    *)
(* the records, every other record with its labels, and every other        *)
(* ledger entry with its snapshot stay as they were.                       *)
C19_PerRecordFrame ==
    [][ (Served /\ res'.op \in {"patch", "undo"} /\ res'.status = 200) =>
          /\ res'.index = findIndex(classifications, res'.id)
          /\ Len(classifications') = Len(classifications)
          /\ \A i \in 1..Len(classifications) \ {res'.index} :
                 /\ classifications'[i] = classifications[i]
                 /\ DeepIn(heap', classifications'[i]) = Deep(classifications[i])
          /\ \A k \in (DOMAIN undoHistory \cup DOMAIN undoHistory') \ {res'.id} :
                 /\ k \in DOMAIN undoHistory /\ k \in DOMAIN undoHistory'
                 /\ undoHistory'[k] = undoHistory[k]
                 /\ DeepIn(heap', undoHistory'[k].previousState)
                        = Deep(undoHistory[k].previousState)
      ]_vars

(* An undo has succeeded on a store of two records while the ledger held   *)
(* an entry for another id, which it still holds.                          *)
C19_Witness ==
    /\ res.op = "undo" /\ res.status = 200
    /\ Len(classifications) = 2
    /\ \E k \in DOMAIN undoHistory : k # res.id

====
